---- MODULE Spec2Model ----
(***************************************************************************)
(* Model of the asynchronous stand-up bot: the per-user reminder scheduler *)
(* (processSchedules), the Setup handler that creates schedule entries,    *)
(* and the completion evaluator (maybePostSummary).                        *)
(*                                                                         *)
(* Time is counted in minutes of UTC since midnight of day 0.  The         *)
(* PostgreSQL store is modelled table by table; a transaction keeps its    *)
(* writes private until COMMIT and drops them on ROLLBACK.  The BullMQ     *)
(* queue (Redis) and the Slack API are outside every database transaction. *)
(*                                                                         *)
(* maybePostSummary is modelled on the store its queries name: one         *)
(* workspace key shared by the configuration, schedules and answers rows   *)
(* (summary.ts:43, 58, 82).  A query that the database rejects is the step *)
(* EvalError, which every call can take at each of its queries.            *)
(***************************************************************************)
EXTENDS Integers, Sequences, FiniteSets, TLC

\* ------------------------------------------------------------------ bounds
MaxDay == 1          \* the clock runs over days 0 .. MaxDay
MaxOps == 4          \* submissions (setup, answer) and runs (tick, evaluator)
MaxCopies == 2       \* copies of one job the queue counts: the last means "or more"

\* ------------------------------------------------------------- time, zones
Day == 24 * 60
MinutesPerHour == Day \div 24

CUTOFF_HOUR_UTC == 17

\* the instant of a day the clock visits in the scheduler's runs, after
\* midnight of day 0: 14:00 UTC (09:00 in New York before the switch to
\* summer time, and past 09:00 UTC)
SchedMarks == {14 * MinutesPerHour}

Instants(marks) == {d * Day + m : d \in 0..MaxDay, m \in marks}

\* the zones offered by the setup modal that the model carries
commonTimezones == {"UTC", "America/New_York"}

\* America/New_York switches from UTC-5 to UTC-4 at 07:00 UTC of day 1
DstStart == Day + 7 * MinutesPerHour

\* UTC offset of a zone at a UTC instant, in minutes (tz database)
Offset(tz, utc) ==
  IF tz = "UTC" THEN 0
  ELSE IF utc < DstStart THEN 0 - 5 * MinutesPerHour
       ELSE 0 - 4 * MinutesPerHour

Max(a, b) == IF a >= b THEN a ELSE b

\* date-fns-tz toZonedTime: the wall clock of the zone at a UTC instant
toZonedTime(utc, tz) == utc + Offset(tz, utc)

\* date-fns-tz fromZonedTime: the UTC instant of a wall-clock reading.  The
\* offset is first taken at the reading as if it were UTC and then fixed
\* up twice around the transition (fixOffset).
fromZonedTime(wall, tz) ==
  LET o1 == Offset(tz, wall)
      o2 == Offset(tz, wall - o1)
      o3 == Offset(tz, wall - o2)
      fixed == IF o1 = o2 THEN o1 ELSE IF o2 = o3 THEN o2 ELSE Max(o2, o3)
  IN  wall - fixed

\* local minute of the day shown by a UTC instant in a zone
LocalMinuteOfDay(utc, tz) == toZonedTime(utc, tz) % Day

\* stand-up times offered to Setup, as hour and minute
LocalTimes == {[h |-> 9, m |-> 0]}

\* calculateNextRunAtUTC(localTime, timezone) evaluated at the instant nowUtc
calculateNextRunAtUTC(localTime, timezone, nowUtc) ==
  LET nowInTargetTz == toZonedTime(nowUtc, timezone)
      today == (nowInTargetTz \div Day) * Day
                 + localTime.h * MinutesPerHour + localTime.m
      nextRunInTargetTz == IF today <= nowInTargetTz THEN today + Day ELSE today
  IN  fromZonedTime(nextRunInTargetTz, timezone)

\* ------------------------------------------------------------------ state
SlackUsers == {"UA", "UB"}
\* the zone each user picks in the setup modal
ZoneOf(u) == IF u = "UA" THEN "America/New_York" ELSE "UTC"
Workspaces == {"T1"}
Channels == {"C1"}
Ticks == {"t1", "t2"}
Evals == 1..2

VARIABLES
  now,         \* the clock (UTC minutes)
  workspaces,  \* table workspaces: workspace id -> [summary_channel]
  users,       \* table users: sequence of rows, users.id is the index
  schedules,   \* table schedules: sequence of rows, schedules.id is the index
  answers,     \* table answers: sequence of rows
  summaries_posted, \* table summaries_posted: set of <<workspace, day>>
  tick,        \* per tick instance: its open transaction
  queue,       \* the send_dm queue: job -> number of times it was added
  ops,         \* number of submissions and of tick or evaluator runs
  lastFailure, \* the latest such run: the call that threw, the rows updated
  ev,          \* per evaluator instance: position and locals of maybePostSummary
  posts        \* what the program sends out, in order: the calls of
               \* chat.postMessage by the evaluator and by the worker, and
               \* the answers of the web server to slash commands

vars == <<now, workspaces, users, schedules, answers, summaries_posted,
          tick, queue, ops, lastFailure, ev, posts>>

storeVars == <<workspaces, users, schedules, answers, summaries_posted>>
schedVars == <<tick, queue, lastFailure>>
evalVars == <<ev, posts>>

\* a tick instance outside processSchedules.  rows is the result of its
\* SELECT (schedule id -> the columns read), todo the rows the loop has not
\* reached, cur the row in work, writes the updates its transaction has
\* made and not yet committed (schedule id -> next_run_at), at the value of
\* now() in its SELECT.
IdleTick == [pc |-> "idle", at |-> 0, rows |-> <<>>, todo |-> {}, cur |-> 0,
             writes |-> <<>>]

\* an evaluator instance before its first run of maybePostSummary.  After a
\* run the fields keep what the run read and decided; outcome names the
\* return it took.
IdleEval == [pc |-> "idle", workspaceId |-> "", date |-> 0,
             summaryChannel |-> "", participants |-> {}, answered |-> {},
             pastCutoff |-> FALSE, ready |-> FALSE, missed |-> {},
             payload |-> <<>>, overlap |-> FALSE, outcome |-> "none"]

\* maybePostSummary returns: what remains of the call is what it read and
\* the return it took
Returned(e, outcome) ==
  [IdleEval EXCEPT !.participants = e.participants, !.answered = e.answered,
                   !.pastCutoff = e.pastCutoff, !.ready = e.ready,
                   !.missed = e.missed, !.outcome = outcome]

\* rows locked FOR UPDATE by some open tick transaction
LockedRows == UNION {DOMAIN tick[t].rows : t \in Ticks}

\* ------------------------------------------------------------------ clock
\* time passes, up to the next instant the run visits
AdvanceClock(marks) ==
  /\ \E t \in Instants(marks) :
       /\ t > now
       /\ \A u \in Instants(marks) : u > now => t <= u
       /\ now' = t
  /\ UNCHANGED <<storeVars, ops, schedVars, evalVars>>

\* the users row with the given Slack id (slack_user_id is UNIQUE), or 0
UserRow(table, slackUserId) ==
  IF \E i \in DOMAIN table : table[i].slack_user_id = slackUserId
  THEN CHOOSE i \in DOMAIN table : table[i].slack_user_id = slackUserId
  ELSE 0

\* the schedules row that conflicts on (user_id, workspace_id), or 0
ScheduleRow(table, userId, workspaceId) ==
  IF \E i \in DOMAIN table : table[i].user_id = userId
                              /\ table[i].workspace_id = workspaceId
  THEN CHOOSE i \in DOMAIN table : table[i].user_id = userId
                                   /\ table[i].workspace_id = workspaceId
  ELSE 0

\* INSERT INTO users ... ON CONFLICT (slack_user_id) DO UPDATE
UpsertUser(table, slackUserId, workspaceId, tz) ==
  LET i == UserRow(table, slackUserId)
      row == [slack_user_id |-> slackUserId, workspace_id |-> workspaceId,
              tz |-> tz]
  IN  IF i = 0 THEN Append(table, row) ELSE [table EXCEPT ![i] = row]

\* a plain INSERT INTO schedules, without the ON CONFLICT clause
InsertSchedule(table, userId, workspaceId, nextRunAt, localTime, tz) ==
  Append(table, [user_id |-> userId, workspace_id |-> workspaceId,
                 next_run_at |-> nextRunAt, is_active |-> TRUE,
                 local_time |-> localTime, timezone |-> tz])

\* INSERT INTO schedules ... ON CONFLICT (user_id, workspace_id) DO UPDATE.
\* local_time and timezone are not columns: they record the request the row
\* was computed from.
UpsertSchedule(table, userId, workspaceId, nextRunAt, localTime, tz) ==
  LET i == ScheduleRow(table, userId, workspaceId)
  IN  IF i = 0
      THEN Append(table, [user_id |-> userId, workspace_id |-> workspaceId,
                          next_run_at |-> nextRunAt, is_active |-> TRUE,
                          local_time |-> localTime, timezone |-> tz])
      ELSE [table EXCEPT ![i].next_run_at = nextRunAt,
                         ![i].is_active = TRUE,
                         ![i].local_time = localTime,
                         ![i].timezone = tz]

\* The view-submission handler of the setup modal with all three fields
\* given: one transaction that upserts the workspace, the user and the
\* schedule.  The upsert of a schedule row waits while a scheduler tick
\* holds the row's lock.
Setup(slackUserId, slackTeamId, tz, standupTime, summaryChan) ==
  LET users1 == UpsertUser(users, slackUserId, slackTeamId, tz)
      userId == UserRow(users1, slackUserId)
      nextRunAt == calculateNextRunAtUTC(standupTime, tz, now)
      old == ScheduleRow(schedules, userId, slackTeamId)
  IN  /\ ops < MaxOps
      /\ ops' = ops + 1
      /\ old \notin LockedRows
      /\ workspaces' = [w \in DOMAIN workspaces \cup {slackTeamId} |->
                          IF w = slackTeamId
                          THEN [summary_channel |-> summaryChan]
                          ELSE workspaces[w]]
      /\ users' = users1
      /\ schedules' = UpsertSchedule(schedules, userId, slackTeamId, nextRunAt,
                                     standupTime, tz)
      /\ UNCHANGED <<now, answers, summaries_posted, schedVars, evalVars>>

\* An entry is switched off (is_active = false) by an update of its row;
\* the update waits while a tick holds the row's lock.
DisableEntry(s) ==
  /\ s \in DOMAIN schedules
  /\ s \notin LockedRows
  /\ schedules[s].is_active
  /\ schedules' = [schedules EXCEPT ![s].is_active = FALSE]
  /\ UNCHANGED <<now, workspaces, users, answers, summaries_posted,
                 schedVars, evalVars>>

\* an entry is switched off, in runs that do not count the update
Disable(s) == DisableEntry(s) /\ UNCHANGED ops

\* The summary channel of a workspace is taken away (the column is
\* nullable); the rows of its users, schedules and answers stay.
ClearChannel(w) ==
  /\ w \in DOMAIN workspaces
  /\ workspaces[w].summary_channel # ""
  /\ ops < MaxOps
  /\ ops' = ops + 1
  /\ workspaces' = [workspaces EXCEPT ![w].summary_channel = ""]
  /\ UNCHANGED <<now, users, schedules, answers, summaries_posted,
                 schedVars, evalVars>>

\* -------------------------------------------------------- processSchedules
\* the same SELECT without SKIP LOCKED and without waiting: every due row,
\* also one another transaction holds
DueRowsIgnoringLocks ==
  {s \in DOMAIN schedules : schedules[s].next_run_at <= now}

\* SELECT id, user_id, next_run_at FROM schedules WHERE next_run_at <= now()
\* FOR UPDATE SKIP LOCKED: the ids of the rows returned
DueRows ==
  {s \in DOMAIN schedules : schedules[s].next_run_at <= now} \ LockedRows

\* the table with a transaction's updates of next_run_at applied (COMMIT)
ApplyWrites(table, writes) ==
  [s \in DOMAIN table |->
     IF s \in DOMAIN writes
     THEN [table[s] EXCEPT !.next_run_at = writes[s]]
     ELSE table[s]]

\* the queue with one more copy of a job (counted up to MaxCopies)
AddJob(q, job) ==
  [j \in DOMAIN q \cup {job} |->
     IF j = job
     THEN (IF job \in DOMAIN q
           THEN (IF q[job] < MaxCopies THEN q[job] + 1 ELSE q[job])
           ELSE 1)
     ELSE q[j]]

\* BEGIN and the SELECT, when it returns rows: they stay locked until the
\* transaction ends
TickClaim(t) ==
  /\ tick[t].pc = "idle"
  /\ DueRows # {}
  /\ tick' = [tick EXCEPT ![t] =
       [pc |-> "enqueue", at |-> now,
        rows |-> [s \in DueRows |->
                   [user_id |-> schedules[s].user_id,
                    next_run_at |-> schedules[s].next_run_at]],
        todo |-> DueRows, cur |-> 0, writes |-> <<>>]]
  /\ UNCHANGED <<now, storeVars, queue, lastFailure, evalVars>>

\* a run of processSchedules that claims rows, counted
TickBegin(t) ==
  /\ ops < MaxOps
  /\ ops' = ops + 1
  /\ TickClaim(t)

\* BEGIN and the SELECT, when no row is due and unlocked: COMMIT and return
TickNoRows(t) ==
  /\ tick[t].pc = "idle"
  /\ DueRows = {}
  /\ UNCHANGED vars

\* dmQueue.add("send_dm", {userId: sched.user_id}) for the next row of the
\* loop; the rows come in no particular order.  Of a job only userId is
\* data of the program; sid, occurrence and active record which entry,
\* which value of next_run_at and which is_active the job was enqueued for.
TickEnqueue(t) ==
  /\ tick[t].pc = "enqueue"
  /\ \E s \in tick[t].todo :
       /\ queue' = AddJob(queue,
            [userId |-> tick[t].rows[s].user_id, sid |-> s,
             occurrence |-> tick[t].rows[s].next_run_at,
             active |-> schedules[s].is_active])
       /\ tick' = [tick EXCEPT ![t].pc = "update", ![t].cur = s]
  /\ UNCHANGED <<now, storeVars, ops, lastFailure, evalVars>>

\* an advance that counts the day from the moment the tick runs
AdvanceFromNow(s) == now + Day

\* next_run_at + interval '1 day' of row s: the stored value plus one day
AdvanceFromAnchor(s) == schedules[s].next_run_at + Day

\* UPDATE schedules SET next_run_at = next_run_at + interval '1 day'
\* WHERE id = $1, inside the transaction; the database session runs in UTC,
\* where one day is 24 hours
TickUpdate(t) ==
  /\ tick[t].pc = "update"
  /\ LET s == tick[t].cur
          todo1 == tick[t].todo \ {s}
          writes1 == [x \in DOMAIN tick[t].writes \cup {s} |->
                        IF x = s THEN AdvanceFromAnchor(s)
                        ELSE tick[t].writes[x]]
     IN  tick' = [tick EXCEPT ![t].writes = writes1,
                              ![t].todo = todo1,
                              ![t].cur = 0,
                              ![t].pc = IF todo1 = {} THEN "commit"
                                        ELSE "enqueue"]
  /\ UNCHANGED <<now, storeVars, queue, ops, lastFailure, evalVars>>

\* COMMIT: the updates become visible and the row locks are released
TickCommit(t) ==
  /\ tick[t].pc = "commit"
  /\ schedules' = ApplyWrites(schedules, tick[t].writes)
  /\ tick' = [tick EXCEPT ![t] = IdleTick]
  /\ UNCHANGED <<now, workspaces, users, answers, summaries_posted, queue, ops, lastFailure,
                 evalVars>>

\* ROLLBACK of a transaction whose updates had been applied to the table
\* right away (the updates running outside the transaction)
TickRollbackKeepsUpdates(t) ==
  /\ tick[t].pc \in {"enqueue", "update", "commit"}
  /\ lastFailure' = [at |-> tick[t].pc, written |-> DOMAIN tick[t].writes]
  /\ schedules' = ApplyWrites(schedules, tick[t].writes)
  /\ tick' = [tick EXCEPT ![t] = IdleTick]
  /\ UNCHANGED <<now, workspaces, users, answers, summaries_posted, queue, ops, evalVars>>

\* An awaited call throws (dmQueue.add at pc "enqueue", the UPDATE at pc
\* "update", COMMIT at pc "commit"): the catch block runs ROLLBACK, which
\* drops the transaction's updates and releases the locks.  Jobs already
\* added to the queue stay: the queue is no part of the transaction.
TickRollback(t) ==
  /\ tick[t].pc \in {"enqueue", "update", "commit"}
  /\ lastFailure' = [at |-> tick[t].pc, written |-> DOMAIN tick[t].writes]
  /\ tick' = [tick EXCEPT ![t] = IdleTick]
  /\ UNCHANGED <<now, storeVars, queue, ops, evalVars>>

\* -------------------------------------------------------- answer intake
\* the texts a participant submits
AnswerTexts == {[yesterday |-> "y", today |-> "t", blockers |-> ""]}

\* The submit_standup_action handler: looks the user up by Slack id and
\* inserts one row into answers; submitted_at defaults to now().  A user
\* without a users row gets an error message and nothing is stored.
SubmitStandup(slackUserId, texts) ==
  LET userId == UserRow(users, slackUserId)
  IN  /\ ops < MaxOps
      /\ ops' = ops + 1
      /\ answers' =
           IF userId = 0 THEN answers
           ELSE Append(answers,
                  [user_id |-> userId,
                   workspace_id |-> users[userId].workspace_id,
                   submitted_at |-> now,
                   yesterday |-> texts.yesterday, today |-> texts.today,
                   blockers |-> texts.blockers])
      /\ UNCHANGED <<now, workspaces, users, schedules, summaries_posted,
                     schedVars, evalVars>>

\* The view-submission handler of the stand-up modal, with yesterday and
\* today filled in as its validation demands: it reads the user with the
\* next_run_at of the user's active entry, inserts the answer and sets the
\* active entries of the user to that next_run_at plus one day (addDays, in
\* a process running in UTC).  The update waits while a tick holds the lock
\* of a row.  An unknown user gets an error message and nothing is stored.
SubmitStandupModal(slackUserId, texts) ==
  LET userId == UserRow(users, slackUserId)
      active == {s \in DOMAIN schedules :
                   /\ userId # 0
                   /\ schedules[s].user_id = userId
                   /\ schedules[s].workspace_id = users[userId].workspace_id
                   /\ schedules[s].is_active}
      currentNextRunAt == schedules[CHOOSE s \in active : TRUE].next_run_at
  IN  /\ ops < MaxOps
      /\ ops' = ops + 1
      /\ active \cap LockedRows = {}
      /\ IF userId = 0 \/ texts.yesterday = "" \/ texts.today = ""
         THEN UNCHANGED <<answers, schedules>>
         ELSE /\ answers' = Append(answers,
                   [user_id |-> userId,
                    workspace_id |-> users[userId].workspace_id,
                    submitted_at |-> now,
                    yesterday |-> texts.yesterday, today |-> texts.today,
                    blockers |-> texts.blockers])
              /\ schedules' =
                   [s \in DOMAIN schedules |->
                      IF s \in active
                      THEN [schedules[s] EXCEPT
                              !.next_run_at = currentNextRunAt + Day]
                      ELSE schedules[s]]
      /\ UNCHANGED <<now, workspaces, users, summaries_posted, schedVars,
                     evalVars>>

\* -------------------------------------------------- scheduler specification
SchedInit ==
  /\ now = 0
  /\ workspaces = <<>>
  /\ users = <<>>
  /\ schedules = <<>>
  /\ answers = <<>>
  /\ summaries_posted = {}
  /\ tick = [t \in Ticks |-> IdleTick]
  /\ queue = <<>>
  /\ ops = 0
  /\ lastFailure = [at |-> "none", written |-> {}]
  /\ ev = [i \in Evals |-> IdleEval]
  /\ posts = <<>>

SchedNext ==
  \/ AdvanceClock(SchedMarks)
  \/ \E u \in SlackUsers, w \in Workspaces, lt \in LocalTimes, c \in Channels :
        Setup(u, w, ZoneOf(u), lt, c)
  \/ \E s \in DOMAIN schedules : Disable(s)
  \/ \E u \in SlackUsers, x \in AnswerTexts : SubmitStandupModal(u, x)
  \/ \E t \in Ticks :
        \/ TickBegin(t)
        \/ TickNoRows(t)
        \/ TickEnqueue(t)
        \/ TickUpdate(t)
        \/ TickCommit(t)
        \/ TickRollback(t)

SchedSpec == SchedInit /\ [][SchedNext]_vars

\* ------------------------------------------------------- maybePostSummary
\* the users of all schedule rows of the workspace, active or not
ParticipantUserIdsAll(workspaceId) ==
  {schedules[s].user_id : s \in {x \in DOMAIN schedules :
       schedules[x].workspace_id = workspaceId}}

\* SELECT user_id FROM schedules WHERE workspace_id = $1 AND is_active = TRUE
ParticipantUserIds(workspaceId) ==
  {schedules[s].user_id : s \in {x \in DOMAIN schedules :
       schedules[x].workspace_id = workspaceId /\ schedules[x].is_active}}

\* the same SELECT with submitted_at <= $3: a window closed at both ends
AnswerRowsClosed(workspaceId, date) ==
  SelectSeq([i \in DOMAIN answers |-> i],
            LAMBDA i : /\ answers[i].workspace_id = workspaceId
                       /\ answers[i].submitted_at >= date
                       /\ answers[i].submitted_at <= date + Day)

\* SELECT ... FROM answers WHERE workspace_id = $1 AND submitted_at >= $2
\* AND submitted_at < $3, with $2 = date and $3 = date plus one day: the
\* indices of the rows, in table order
AnswerRows(workspaceId, date) ==
  SelectSeq([i \in DOMAIN answers |-> i],
            LAMBDA i : /\ answers[i].workspace_id = workspaceId
                       /\ answers[i].submitted_at >= date
                       /\ answers[i].submitted_at < date + Day)

\* the users of a sequence of answer rows
UserIdsOf(rows) == {answers[rows[k]].user_id : k \in DOMAIN rows}

\* allAnswered: there are participants and each is among the answered users
AllAnswered(participantUserIds, answeredUserIds) ==
  /\ participantUserIds # {}
  /\ \A id \in participantUserIds : id \in answeredUserIds

\* cutoffTime: 17:00 UTC of the summary day
CutoffTime(date) == date + CUTOFF_HOUR_UTC * MinutesPerHour

\* pastCutoff
PastCutoff(date, nowUtc) == nowUtc >= CutoffTime(date)

\* the condition under which the summary is built, with a publisher call
\* whenever there is an answer
ConditionsMetAlways(allAnswered, pastCutoff) == TRUE

\* the condition under which the summary is built, were it the cutoff alone
ConditionsMetAtCutoffOnly(allAnswered, pastCutoff) == pastCutoff

\* the condition under which the summary is built
ConditionsMet(allAnswered, pastCutoff) == allAnswered \/ pastCutoff

\* the check for an empty answer list, turned around
NothingToSummarizeInverted(rows) == Len(rows) # 0

\* a day without answers is summarised all the same
NothingToSummarizeNever(rows) == FALSE

\* answers.length === 0: there is nothing to summarise
NothingToSummarize(rows) == Len(rows) = 0

\* a text field of a summary line as stored, without a placeholder
KeepText(text, placeholder) == text

\* a text field of a summary line, or its placeholder when empty
OrPlaceholder(text, placeholder) == IF text = "" THEN placeholder ELSE text

\* one line of summaryBody per answer row
SummaryLines(rows) ==
  [k \in DOMAIN rows |->
     [user_id |-> answers[rows[k]].user_id,
      yesterday |-> OrPlaceholder(answers[rows[k]].yesterday, "_Not provided_"),
      today |-> OrPlaceholder(answers[rows[k]].today, "_Not provided_"),
      blockers |-> OrPlaceholder(answers[rows[k]].blockers, "_None_")]]

\* a "Did not respond" list that names every participant
MissedUsersAll(participantUserIds, answeredUserIds, allAnswered, pastCutoff) ==
  IF pastCutoff /\ ~allAnswered THEN participantUserIds ELSE {}

\* missedUsers: the "Did not respond" list, empty when it is not added
MissedUsers(participantUserIds, answeredUserIds, allAnswered, pastCutoff) ==
  IF pastCutoff /\ ~allAnswered
  THEN {id \in participantUserIds : id \notin answeredUserIds}
  ELSE {}

\* the days a summary can be asked for: the days begun so far
SummaryDates == {d * Day : d \in 0..(now \div Day)}

\* maybePostSummary(workspaceId, date) is called: it takes a connection.
\* Concurrent calls are numbered in the order of their start: a call takes
\* the first instance that is not running.
EvalCall(i, workspaceId, date) ==
  /\ ev[i].pc = "idle"
  /\ ev' = [ev EXCEPT ![i] =
       [IdleEval EXCEPT !.pc = "config", !.workspaceId = workspaceId,
                        !.date = date,
                        !.overlap = \E j \in Evals \ {i} :
                                      /\ ev[j].pc # "idle"
                                      /\ ev[j].workspaceId = workspaceId
                                      /\ ev[j].date = date]]
  /\ UNCHANGED <<now, storeVars, schedVars, posts>>

\* a call of maybePostSummary in the evaluator's runs: instance i is called
\* only while the instances before it are running
EvalStart(i, workspaceId, date) ==
  /\ \A j \in Evals : j < i => ev[j].pc # "idle"
  /\ ops < MaxOps
  /\ ops' = ops + 1
  /\ EvalCall(i, workspaceId, date)

\* the configuration check, were an empty channel let through
NoSummaryChannelRowOnly(w) == w \notin DOMAIN workspaces

\* configRes.rows.length === 0 || !configRes.rows[0].summary_channel
NoSummaryChannel(w) ==
  w \notin DOMAIN workspaces \/ workspaces[w].summary_channel = ""

\* step 1: the workspace configuration; without a row or a channel the
\* summary is skipped
EvalConfig(i) ==
  /\ ev[i].pc = "config"
  /\ LET w == ev[i].workspaceId
     IN  ev' = [ev EXCEPT ![i] =
           IF NoSummaryChannel(w)
           THEN Returned(@, "noChannel")
           ELSE [@ EXCEPT !.pc = "participants",
                          !.summaryChannel = workspaces[w].summary_channel]]
  /\ UNCHANGED <<now, storeVars, ops, schedVars, posts>>

\* a workspace without participants is evaluated all the same
NoParticipantsNever(participantUserIds) == FALSE

\* participantUserIds.size === 0
NoParticipants(participantUserIds) == participantUserIds = {}

\* step 2: the active participants; without any the summary is skipped
EvalParticipants(i) ==
  /\ ev[i].pc = "participants"
  /\ LET participantUserIds == ParticipantUserIds(ev[i].workspaceId)
     IN  ev' = [ev EXCEPT ![i] =
           IF NoParticipants(participantUserIds)
           THEN Returned(@, "noParticipants")
           ELSE [@ EXCEPT !.pc = "answers",
                          !.participants = participantUserIds]]
  /\ UNCHANGED <<now, storeVars, ops, schedVars, posts>>

\* steps 3 to 7: the day's answers are read, completion and cutoff are
\* checked against the clock, and either the function returns or the
\* summary is built and handed to the publisher call that follows
EvalAnswers(i) ==
  /\ ev[i].pc = "answers"
  /\ LET rows == AnswerRows(ev[i].workspaceId, ev[i].date)
         answeredUserIds == UserIdsOf(rows)
         allAnswered == AllAnswered(ev[i].participants, answeredUserIds)
         pastCutoff == PastCutoff(ev[i].date, now)
         missedUsers == MissedUsers(ev[i].participants, answeredUserIds,
                                    allAnswered, pastCutoff)
         seen == [ev[i] EXCEPT !.answered = answeredUserIds,
                               !.pastCutoff = pastCutoff,
                               !.ready = ConditionsMet(allAnswered, pastCutoff)]
     IN  ev' = [ev EXCEPT ![i] =
           IF ConditionsMet(allAnswered, pastCutoff)
           THEN IF NothingToSummarize(rows)
                THEN Returned(seen, "noAnswers")
                ELSE [seen EXCEPT !.pc = "post", !.missed = missedUsers,
                                  !.payload =
                       <<[channel |-> ev[i].summaryChannel,
                          workspaceId |-> ev[i].workspaceId,
                          date |-> ev[i].date,
                          lines |-> SummaryLines(rows),
                          responded |-> Cardinality(answeredUserIds),
                          total |-> Cardinality(ev[i].participants),
                          missed |-> missedUsers,
                          by |-> i, overlap |-> ev[i].overlap,
                          newest |-> IF rows = <<>> THEN 0 ELSE rows[Len(rows)],
                          stored |-> 0, ok |-> TRUE]>>]
           ELSE Returned(seen, "notReady")]
  /\ UNCHANGED <<now, storeVars, ops, schedVars, posts>>

\* slackClient.chat.postMessage is called with the summary; whether it
\* answers ok or fails, the function logs and returns.  The call is
\* recorded with its result, with the newest answer row the summary was
\* built from and with the number of answer rows stored when it was made.
EvalPost(i, ok) ==
  /\ ev[i].pc = "post"
  /\ posts' = Append(posts, [ev[i].payload[1] EXCEPT
                               !.stored = Len(answers), !.ok = ok])
  /\ ev' = [ev EXCEPT ![i] =
             Returned(@, IF ok THEN "posted" ELSE "postFailed")]
  /\ UNCHANGED <<now, storeVars, ops, schedVars>>

\* a query throws and the error leaves the function: it ends the calls
\* that are running beside it as well
EvalErrorAbortsRun(i) ==
  /\ ev[i].pc \in {"config", "participants", "answers"}
  /\ ev' = [j \in Evals |->
              IF j = i THEN Returned(ev[j], "error")
              ELSE IF ev[j].pc = "idle" THEN ev[j] ELSE IdleEval]
  /\ UNCHANGED <<now, storeVars, ops, schedVars, posts>>

\* a query throws: the outer catch logs the error and the function returns
EvalError(i) ==
  /\ ev[i].pc \in {"config", "participants", "answers"}
  /\ ev' = [ev EXCEPT ![i] = Returned(@, "error")]
  /\ UNCHANGED <<now, storeVars, ops, schedVars, posts>>

\* -------------------------------------------------- evaluator specification
\* the instants the clock visits in the evaluator's runs, after midnight of
\* day 0: the cutoff of each day
EvalMarks == {CUTOFF_HOUR_UTC * MinutesPerHour}

\* the evaluator's runs are followed through day 0: the clock goes from
\* midnight to the cutoff of that day
EvalClock == now < CutoffTime(0) /\ AdvanceClock(EvalMarks)

\* the tables before any setup
EmptyStore == [workspaces |-> <<>>, users |-> <<>>, schedules |-> <<>>]

\* the tables after one Setup submission at instant 0 into the empty store
StoreAfterSetup(slackUserId, slackTeamId, standupTime, summaryChan) ==
  LET tz == ZoneOf(slackUserId)
  IN  [workspaces |-> [w \in {slackTeamId} |->
                         [summary_channel |-> summaryChan]],
       users |-> UpsertUser(<<>>, slackUserId, slackTeamId, tz),
       schedules |-> UpsertSchedule(<<>>, 1, slackTeamId,
                       calculateNextRunAtUTC(standupTime, tz, 0),
                       standupTime, tz)]

\* the evaluator's runs start at instant 0 on a store that is empty or has
\* seen its first setup
EvalInit ==
  /\ now = 0
  /\ \E st \in {EmptyStore} \cup
               {StoreAfterSetup(u, w, lt, c) :
                  u \in SlackUsers, w \in Workspaces,
                  lt \in LocalTimes, c \in Channels} :
        /\ workspaces = st.workspaces
        /\ users = st.users
        /\ schedules = st.schedules
  /\ answers = <<>>
  /\ summaries_posted = {}
  /\ tick = [t \in Ticks |-> IdleTick]
  /\ queue = <<>>
  /\ ops = 0
  /\ lastFailure = [at |-> "none", written |-> {}]
  /\ ev = [i \in Evals |-> IdleEval]
  /\ posts = <<>>

EvalNext ==
  \/ EvalClock
  \/ \E u \in SlackUsers, w \in Workspaces, lt \in LocalTimes, c \in Channels :
        Setup(u, w, ZoneOf(u), lt, c)
  \/ \E s \in DOMAIN schedules : Disable(s)
  \/ \E w \in Workspaces : ClearChannel(w)
  \/ \E u \in SlackUsers, x \in AnswerTexts : SubmitStandup(u, x)
  \/ \E i \in Evals :
        \/ \E w \in Workspaces, d \in SummaryDates : EvalStart(i, w, d)
        \/ EvalConfig(i)
        \/ EvalParticipants(i)
        \/ EvalAnswers(i)
        \/ \E ok \in BOOLEAN : EvalPost(i, ok)
        \/ EvalError(i)

EvalSpec == EvalInit /\ [][EvalNext]_vars

\* ------------------------------------------------------- scheduler claims
\* the rows for which a tick at this point has added a job to the queue
Enqueued(t) ==
  (DOMAIN tick[t].rows \ tick[t].todo)
    \cup (IF tick[t].cur = 0 THEN {} ELSE {tick[t].cur})

\* C1 (no double-fire): for every schedule entry and every value of its
\* next_run_at, at most one job is added to the send_dm queue, whatever
\* ticks run, overlap or roll back.
C1_NoDoubleFire ==
  \A j, k \in DOMAIN queue :
     (j.sid = k.sid /\ j.occurrence = k.occurrence)
       => (j = k /\ queue[j] <= 1)

\* C4 (atomic advance): when dmQueue.add fails in a tick, every entry the
\* tick had claimed has, as the tick ends, the next_run_at its SELECT read.
C4_AtomicAdvance ==
  [][\A t \in Ticks :
       (tick[t].pc = "enqueue" /\ tick'[t].pc = "idle")
         => \A s \in DOMAIN tick[t].rows :
              schedules'[s].next_run_at = tick[t].rows[s].next_run_at]_vars

\* C4 witness: a tick that had already updated one entry failed at the
\* enqueue of another and rolled back.
C4_Witness ==
  /\ lastFailure.at = "enqueue"
  /\ lastFailure.written # {}

\* C5 (claim, enqueue and advance are one unit): when a tick ends, each
\* entry it had claimed has a job of this tick in the queue exactly if the
\* tick's advance of the entry's next_run_at was committed; a tick that
\* rolls back leaves no job.
C5_AtomicUnit ==
  [][\A t \in Ticks :
       (tick[t].pc # "idle" /\ tick'[t].pc = "idle")
         => \A s \in DOMAIN tick[t].rows :
              (s \in Enqueued(t))
                <=> (schedules'[s].next_run_at
                       = tick[t].rows[s].next_run_at + Day)]_vars

\* C6 (inactive entries are not dispatched): no job is ever enqueued for an
\* entry whose is_active is false when the tick processes it.
C6_NeverDispatchInactive ==
  \A j \in DOMAIN queue : j.active

\* C7 (drift-free): every next_run_at that a committed tick writes shows,
\* in the entry's timezone, the hour and minute of the entry's local time,
\* also when the zone's offset changed since the previous occurrence.
C7_DriftFree ==
  [][\A t \in Ticks :
       (tick[t].pc = "commit" /\ tick'[t].pc = "idle"
          /\ schedules' # schedules)
         => \A s \in DOMAIN tick[t].writes :
              LocalMinuteOfDay(schedules'[s].next_run_at,
                               schedules'[s].timezone)
                = schedules'[s].local_time.h * MinutesPerHour
                    + schedules'[s].local_time.m]_vars

\* ------------------------------------------------------- evaluator claims
\* two publisher calls for the same workspace and day with the same summary
SameSummary(p, q) ==
  /\ p.workspaceId = q.workspaceId /\ p.date = q.date
  /\ p.channel = q.channel /\ p.lines = q.lines
  /\ p.responded = q.responded /\ p.total = q.total /\ p.missed = q.missed

\* the call of instance i has taken the decision of steps 4 to 6
Decided(i) ==
  \/ ev[i].pc = "post"
  \/ ev[i].pc = "idle" /\
       ev[i].outcome \in {"notReady", "noAnswers", "posted", "postFailed"}

\* the call of instance i has reached the publisher call
Publishes(i) ==
  \/ ev[i].pc = "post"
  \/ ev[i].pc = "idle" /\ ev[i].outcome \in {"posted", "postFailed"}

\* C2: idempotent publish.  Two calls of maybePostSummary made one after
\* the other (neither started while another call for the pair was running)
\* for the same workspace and day, which read the same participants and
\* answers and so build the same summary, do not both call the publisher.
C2_IdempotentPublish ==
  \A k, l \in DOMAIN posts :
     (k < l /\ SameSummary(posts[k], posts[l])
        /\ ~posts[k].overlap /\ ~posts[l].overlap) => FALSE

\* C3: at-most-once publish under concurrency.  When a call of
\* maybePostSummary starts while another call for the same workspace and
\* day is running, the publisher is not called twice for that pair.
C3_AtMostOncePublish ==
  \A k, l \in DOMAIN posts :
     (k < l /\ posts[k].workspaceId = posts[l].workspaceId
        /\ posts[k].date = posts[l].date)
     => ~(posts[k].overlap \/ posts[l].overlap)

\* C8: not ready before cutoff.  A call that found a summary channel and
\* active participants, read answers of only some of them and read the
\* clock before the day's cutoff does not reach the publisher call.
C8_NotReadyBeforeCutoff ==
  \A i \in Evals :
     (/\ Decided(i)
      /\ ~AllAnswered(ev[i].participants, ev[i].answered)
      /\ ~ev[i].pastCutoff)
     => (~Publishes(i) /\ ev[i].outcome = "notReady")

\* participants {A,B}, an answer of one of them only, before the cutoff:
\* the call has returned without the publisher call
C8_Witness ==
  \E i \in Evals :
     /\ ev[i].pc = "idle" /\ ev[i].outcome = "notReady"
     /\ Cardinality(ev[i].participants) = 2
     /\ Cardinality(ev[i].answered) = 1
     /\ ev[i].answered \subseteq ev[i].participants
     /\ ~ev[i].pastCutoff

\* C9: ready when all answered.  A call that found a summary channel and
\* read an answer of every active participant is ready and goes on to the
\* publisher call, whatever the clock says.
C9_ReadyWhenAllAnswered ==
  \A i \in Evals :
     (/\ Decided(i)
      /\ AllAnswered(ev[i].participants, ev[i].answered))
     => (ev[i].ready /\ Publishes(i))

\* every participant answered and the publisher was called before the cutoff
C9_Witness ==
  \E i \in Evals :
     /\ ev[i].pc = "idle" /\ ev[i].outcome \in {"posted", "postFailed"}
     /\ ev[i].participants # {}
     /\ AllAnswered(ev[i].participants, ev[i].answered)
     /\ ~ev[i].pastCutoff
     /\ posts # <<>>

\* C10 as stated: ready at cutoff with no answers.  A call that read the
\* participants, no answer in the day's window and the clock at or past the
\* cutoff is ready and produces a result listing every participant as a
\* non-responder.
C10_ReadyAtCutoffListsAll ==
  \A i \in Evals :
     (Decided(i) /\ ev[i].answered = {} /\ ev[i].pastCutoff)
     => (ev[i].ready /\ Publishes(i) /\ ev[i].missed = ev[i].participants)

\* C10 amended: such a call is ready, but it returns at the check for an
\* empty answer list: no summary is built, the publisher is not called and
\* nobody is listed as a non-responder.
C10_ReadyAtCutoffReturnsEmpty ==
  \A i \in Evals :
     (Decided(i) /\ ev[i].answered = {} /\ ev[i].pastCutoff)
     => (ev[i].ready /\ ~Publishes(i) /\ ev[i].outcome = "noAnswers"
           /\ ev[i].missed = {})

\* participants {A,B}, no answer, at the cutoff: the call has returned
C10_Witness ==
  \E i \in Evals :
     /\ ev[i].pc = "idle" /\ ev[i].outcome = "noAnswers"
     /\ Cardinality(ev[i].participants) = 2
     /\ ev[i].answered = {}
     /\ ev[i].pastCutoff

\* C11: publication needs an answer.  A call that finds the day ready (all
\* answered or past the cutoff) while no answer row falls in the day's
\* window does not reach the publisher call; every publisher call carries
\* at least one answer line, and no row is written to summaries_posted.
C11_PublicationNeedsAnswer ==
  /\ \A i \in Evals :
        (Decided(i) /\ ev[i].ready /\ ev[i].answered = {}) => ~Publishes(i)
  /\ \A k \in DOMAIN posts : posts[k].lines # <<>>
  /\ summaries_posted = {}

\* a call found the day ready without any answer and returned, and neither
\* a publisher call nor a publication claim was made
C11_Witness ==
  \E i \in Evals :
     /\ ev[i].pc = "idle" /\ ev[i].ready /\ ev[i].answered = {}
     /\ ev[i].outcome = "noAnswers"
     /\ posts = <<>> /\ summaries_posted = {}

\* C12: empty-workspace skip.  A call that reads no schedule row with
\* is_active = TRUE for the workspace goes no further than step 2: it reads
\* no answers and reaches no publisher call, whatever answers exist and
\* whatever the clock says; every publisher call counts a participant.
C12_EmptyWorkspaceSkip ==
  /\ \A i \in Evals :
        ev[i].participants = {} =>
          (ev[i].pc \notin {"answers", "post"} /\ ~Decided(i))
  /\ \A k \in DOMAIN posts : posts[k].total > 0

\* past the cutoff of day 0, with an answer given on day 0, a call found no
\* active participant and returned without a publisher call
C12_Witness ==
  \E i \in Evals :
     /\ ev[i].pc = "idle" /\ ev[i].outcome = "noParticipants"
     /\ answers # <<>>
     /\ now >= CutoffTime(0) /\ now < Day
     /\ posts = <<>>

\* C13: missing configuration suppresses the summary.  When the first query
\* of a call returns no row for the workspace, or a row without a summary
\* channel, the call returns there by its normal path (not through the
\* catch block) and the publisher is not called, whatever participants and
\* answers the store holds.
C13_MissingConfigSkips ==
  [][\A i \in Evals :
       (/\ ev[i].pc = "config"
        /\ ev'[i] # ev[i]
        /\ ev'[i].outcome # "error"
        /\ \/ ev[i].workspaceId \notin DOMAIN workspaces
           \/ workspaces[ev[i].workspaceId].summary_channel = "")
       => (/\ ev'[i].pc = "idle"
           /\ ev'[i].outcome = "noChannel"
           /\ posts' = posts)]_vars

\* a workspace with an active participant and an answer but no summary
\* channel: the call has returned at the configuration check
C13_Witness ==
  \E i \in Evals :
     /\ ev[i].pc = "idle" /\ ev[i].outcome = "noChannel"
     /\ \E s \in DOMAIN schedules : schedules[s].is_active
     /\ answers # <<>>
     /\ posts = <<>>

\* --------------------------------------------------- scheduler claims, II
\* the claimed entries of tick t other than the one whose enqueue or update
\* fails when the tick stands at its present call: at an update the entry
\* in hand, at an enqueue one of those still to do
OtherEntries(t) ==
  DOMAIN tick[t].rows \
    (IF tick[t].pc = "update" THEN {tick[t].cur} ELSE tick[t].todo)

\* C14: one failing entry does not abort the batch.  When the enqueue or
\* the update of one claimed entry fails, the other entries the tick
\* claimed are dispatched and have their advance committed when the tick
\* ends.
C14_FailureScopedToEntry ==
  [][\A t \in Ticks :
       (tick[t].pc \in {"enqueue", "update"} /\ tick'[t].pc = "idle")
       => \A s \in OtherEntries(t) :
            /\ schedules'[s].next_run_at = tick[t].rows[s].next_run_at + Day
            /\ \E j \in DOMAIN queue' :
                 j.sid = s /\ j.occurrence = tick[t].rows[s].next_run_at]_vars

\* ---------------------------------------------------- evaluator claims, II
\* C15: publish failure keeps the claim.  After a publisher call for a
\* workspace and day has failed, a later call of maybePostSummary for the
\* same pair (one that started when no other call for the pair was
\* running) makes no further publisher call.
C15_FailedPublishKeepsClaim ==
  \A k, l \in DOMAIN posts :
     (/\ k < l
      /\ posts[k].workspaceId = posts[l].workspaceId
      /\ posts[k].date = posts[l].date
      /\ ~posts[k].ok)
     => posts[l].overlap

\* C16: no re-opening of a published day.  Once a summary has been
\* published for a workspace and day, a later call of maybePostSummary for
\* the pair makes no publisher call with a summary that takes in an answer
\* inserted after that publication.
C16_NoReopening ==
  \A k, l \in DOMAIN posts :
     (/\ k < l
      /\ posts[k].workspaceId = posts[l].workspaceId
      /\ posts[k].date = posts[l].date
      /\ posts[k].ok)
     => posts[l].newest <= posts[k].stored

\* C17: after every committed scheduler tick, each entry the tick fired
\* that is active has next_run_at strictly after the tick's now, also an
\* entry that was overdue by more than one day when the tick claimed it.
C17_AdvancedPastNow ==
  [][\A t \in Ticks :
       (tick[t].pc = "commit" /\ tick'[t].pc = "idle"
          /\ schedules' # schedules)
       => \A s \in DOMAIN tick[t].writes :
            schedules'[s].is_active =>
              schedules'[s].next_run_at > tick[t].at]_vars

\* C18: only the scheduler's advance and Setup's upsert change next_run_at.
\* A step that records a stand-up answer leaves next_run_at of every
\* schedule entry unchanged.
C18_AnswerLeavesSchedule ==
  [][Len(answers') > Len(answers)
       => \A s \in DOMAIN schedules :
            schedules'[s].next_run_at = schedules[s].next_run_at]_vars

\* ------------------------------------------------- dispatch specification
\* Runs of processSchedules that go on for ever, with one entry whose
\* enqueue throws every time and the other entries sound.  No statement of
\* the program sets is_active to false, so no step of these runs does.

\* the entries whose dmQueue.add throws on every tick: the second entry set up
FailingEntries == {Cardinality(SlackUsers)}

\* the schedule ids Setup can create
EntryIds == 1..Cardinality(SlackUsers)

\* a run of processSchedules claims the due rows
DispatchClaim(t) == TickClaim(t) /\ UNCHANGED ops

\* dmQueue.add succeeds for a sound entry
DispatchEnqueue(t) == TickEnqueue(t) /\ tick'[t].cur \notin FailingEntries

\* dmQueue.add throws for a failing entry among those the loop has yet to
\* process: the catch block rolls the transaction back
DispatchFail(t) ==
  /\ tick[t].pc = "enqueue"
  /\ tick[t].todo \cap FailingEntries # {}
  /\ TickRollback(t)

\* a user submits the setup modal for the first time; in these runs nobody
\* submits it again, so only processSchedules writes next_run_at afterwards
FirstSetup(slackUserId, slackTeamId, tz, standupTime, summaryChan) ==
  /\ UserRow(users, slackUserId) = 0
  /\ Setup(slackUserId, slackTeamId, tz, standupTime, summaryChan)

\* the steps of one scheduler process
DispatchTick(t) ==
  \/ DispatchClaim(t)
  \/ DispatchEnqueue(t)
  \/ DispatchFail(t)
  \/ TickUpdate(t)
  \/ TickCommit(t)

DispatchNext ==
  \/ AdvanceClock(SchedMarks)
  \/ \E u \in SlackUsers, w \in Workspaces, lt \in LocalTimes, c \in Channels :
        FirstSetup(u, w, ZoneOf(u), lt, c)
  \/ \E t \in Ticks : DispatchTick(t)

\* the cron job starts processSchedules every minute and every call the
\* function awaits returns or throws: a scheduler process that can take a
\* step takes one
DispatchSpec ==
  /\ SchedInit
  /\ [][DispatchNext]_vars
  /\ \A t \in Ticks : WF_vars(DispatchTick(t))

\* entry s exists, is active and is due
Due(s) ==
  /\ s \in DOMAIN schedules
  /\ schedules[s].is_active
  /\ schedules[s].next_run_at <= now

\* C19: at-least-once dispatch.  With ticks that keep running, every sound
\* active entry that becomes due is eventually dispatched: a job for it is
\* in the queue and its advance past now is committed, also when another
\* entry claimed by the same ticks fails every time.
C19_AtLeastOnceDispatch ==
  \A s \in EntryIds \ FailingEntries :
     Due(s) ~> (/\ s \in DOMAIN schedules
                /\ schedules[s].next_run_at > now
                /\ \E j \in DOMAIN queue : j.sid = s)

\* C20: a permanently failing entry is disabled.  An entry whose processing
\* fails on every tick is eventually set to is_active = false, after which
\* no tick claims it.
C20_FailingEntryDisabled ==
  \A s \in FailingEntries :
     Due(s) ~> (s \in DOMAIN schedules /\ ~schedules[s].is_active)

\* ------------------------------------------------ next-run specification
\* calculateNextRunAtUTC over its inputs: the handler of the setup modal
\* calls it with the submitted time and zone at the instant of the
\* submission and stores the result in the schedule row.

\* the submitted stand-up times: before, inside and after the hour New York
\* skips on the day of the switch, and the usual 09:00
NextRunTimes ==
  {[h |-> 1, m |-> 30], [h |-> 2, m |-> 30], [h |-> 3, m |-> 30],
   [h |-> 9, m |-> 0]}

\* the instants of a submission: every half hour of the days 0 .. MaxDay
HalfHour == MinutesPerHour \div 2
NextRunInstants == {d * Day + k * HalfHour : d \in 0..MaxDay, k \in 0..47}

NextRunInit ==
  /\ now \in NextRunInstants
  /\ workspaces = <<>>
  /\ users = <<>>
  /\ schedules = <<>>
  /\ answers = <<>>
  /\ summaries_posted = {}
  /\ tick = [t \in Ticks |-> IdleTick]
  /\ queue = <<>>
  /\ ops = 0
  /\ lastFailure = [at |-> "none", written |-> {}]
  /\ ev = [i \in Evals |-> IdleEval]
  /\ posts = <<>>

NextRunNext ==
  \E u \in SlackUsers, w \in Workspaces, tz \in commonTimezones,
     lt \in NextRunTimes, c \in Channels : Setup(u, w, tz, lt, c)

NextRunSpec == NextRunInit /\ [][NextRunNext]_vars

\* the UTC instant t is a next run of the request (localTime, tz) made at
\* the instant nowUtc: after nowUtc, showing the requested hour and minute
\* in the zone, and no instant between the two shows them
IsNextRun(t, localTime, tz, nowUtc) ==
  LET wanted == localTime.h * MinutesPerHour + localTime.m
  IN  /\ t > nowUtc
      /\ LocalMinuteOfDay(t, tz) = wanted
      /\ \A u \in (nowUtc + 1)..(t - 1) : LocalMinuteOfDay(u, tz) # wanted

\* C21: next-run computation.  For every local time HH:mm, zone and
\* instant now, the instant calculateNextRunAtUTC returns (stored by Setup
\* as next_run_at) is strictly after now, shows exactly the requested hour
\* and minute in the zone, and is the earliest such instant.
C21_NextRunIsNextLocalTime ==
  \A s \in DOMAIN schedules :
     IsNextRun(schedules[s].next_run_at, schedules[s].local_time,
               schedules[s].timezone, now)

\* --------------------------------------------------- setup specification
\* Setup submissions by any users in two workspaces, at any instant.  Each
\* submission is one transaction whose first statement upserts the
\* workspace row and whose second upserts the user row: two submissions
\* that touch the same workspace or the same user run one after the other,
\* and so do two upserts that conflict on the same schedule row.
SetupWorkspaces == {"T1", "T2"}

SetupNext ==
  \/ AdvanceClock(SchedMarks)
  \/ \E u \in SlackUsers, w \in SetupWorkspaces, lt \in LocalTimes,
        c \in Channels : Setup(u, w, ZoneOf(u), lt, c)

SetupSpec == SchedInit /\ [][SetupNext]_vars

C23_OneLinePerUser ==
  \A p \in DOMAIN posts :
     \A k, l \in DOMAIN posts[p].lines :
        posts[p].lines[k].user_id = posts[p].lines[l].user_id => k = l

\* ------------------------------------------------- rendering specification
\* One evaluator at instant 0 on a store that has seen its first setup; the
\* participant submits answers through the submit_standup_action handler,
\* which stores the empty string for every field left empty.
RenderTexts ==
  [yesterday : {"", "y"}, today : {"", "t"}, blockers : {"", "b"}]

RenderInit ==
  /\ EvalInit
  /\ users # <<>>

RenderNext ==
  \/ \E u \in SlackUsers, x \in RenderTexts : SubmitStandup(u, x)
  \/ \E w \in Workspaces, d \in SummaryDates : EvalStart(1, w, d)
  \/ EvalConfig(1)
  \/ EvalParticipants(1)
  \/ EvalAnswers(1)
  \/ \E ok \in BOOLEAN : EvalPost(1, ok)

RenderSpec == RenderInit /\ [][RenderNext]_vars

\* C24: missing-field rendering.  In a published summary every answer
\* field (yesterday, today, blockers) that is empty is rendered as its
\* placeholder; no rendered field of any line is the empty string.
C24_NoEmptyField ==
  \A p \in DOMAIN posts :
     \A k \in DOMAIN posts[p].lines :
        /\ posts[p].lines[k].yesterday # ""
        /\ posts[p].lines[k].today # ""
        /\ posts[p].lines[k].blockers # ""

\* a summary was published with a line whose three fields are placeholders
C24_Witness ==
  \E p \in DOMAIN posts :
     \E k \in DOMAIN posts[p].lines :
        /\ posts[p].lines[k].yesterday = "_Not provided_"
        /\ posts[p].lines[k].today = "_Not provided_"
        /\ posts[p].lines[k].blockers = "_None_"

\* the users with an answer row of the workspace in the window of the day
AnsweredIn(workspaceId, date) ==
  {answers[k].user_id : k \in {x \in DOMAIN answers :
      /\ answers[x].workspace_id = workspaceId
      /\ answers[x].submitted_at >= date
      /\ answers[x].submitted_at < date + Day}}

\* C25: the non-responder list is part of a summary handed to the
\* publisher if and only if now is past the cutoff of the day and not every
\* active participant the run found has answered; when present it is
\* exactly the set of those participants without an answer in the day's
\* window.
C25_NonResponderList ==
  [][\A i \in Evals :
        (ev[i].pc = "answers" /\ ev'[i].pc = "post") =>
           LET listed == ev'[i].payload[1].missed
               answered == AnsweredIn(ev[i].workspaceId, ev[i].date)
               silent == ev[i].participants \ answered
           IN  /\ (listed # {}) <=>
                     (now >= ev[i].date + CUTOFF_HOUR_UTC * MinutesPerHour
                        /\ silent # {})
               /\ listed # {} => listed = silent]_vars

\* a summary was published that has a line of one participant and lists
\* another as a non-responder
C25_Witness ==
  \E p \in DOMAIN posts :
     /\ posts[p].missed # {}
     /\ posts[p].responded > 0
     /\ \E k \in DOMAIN posts[p].lines :
           posts[p].lines[k].user_id \notin posts[p].missed

\* C26: only currently active participants count.  The participants a run
\* of maybePostSummary finds all have an active entry when it reads them,
\* so an entry set to is_active = false before the run is not among them;
\* the run's readiness asks an answer of those participants only and its
\* non-responder list names none but them.
C26_OnlyActiveCount ==
  [][\A i \in Evals :
        /\ (ev[i].pc = "participants" /\ ev'[i].pc = "answers") =>
              \A id \in ev'[i].participants :
                 \E s \in DOMAIN schedules :
                    /\ schedules[s].user_id = id
                    /\ schedules[s].workspace_id = ev[i].workspaceId
                    /\ schedules[s].is_active
        /\ (/\ ev[i].pc = "answers"
            /\ ev'[i].pc # "answers"
            /\ ev'[i].outcome # "error") =>
              LET answered == AnsweredIn(ev[i].workspaceId, ev[i].date)
              IN  /\ ev'[i].ready <=>
                       \/ ev[i].participants \subseteq answered
                       \/ now >= ev[i].date + CUTOFF_HOUR_UTC * MinutesPerHour
                  /\ ev'[i].missed \subseteq ev[i].participants]_vars

\* before the cutoff a summary is ready for the publisher although a user
\* of the workspace with a deactivated entry has not answered
C26_Witness ==
  \E i \in Evals :
     /\ ev[i].pc = "post"
     /\ ~ev[i].pastCutoff
     /\ \E s \in DOMAIN schedules :
           /\ ~schedules[s].is_active
           /\ schedules[s].workspace_id = ev[i].workspaceId
           /\ schedules[s].user_id \notin ev[i].participants
           /\ schedules[s].user_id \notin AnsweredIn(ev[i].workspaceId, ev[i].date)

\* ---------------------------------------------- daily summary specification
\* The scheduler process's daily trigger on the store the setup handler
\* writes (0001_init.sql).  The trigger calls maybePostSummary with the
\* Slack team id of every workspace that has an active entry; the function
\* looks its configuration up by a column workspace_id of workspaces.

\* the columns of table workspaces
WorkspacesColumns ==
  {"id", "slack_team_id", "summary_channel", "is_active", "created_at",
   "updated_at"}

\* the columns the configuration query of maybePostSummary names
ConfigQueryColumns == {"summary_channel", "workspace_id"}

\* the store runs a query when the table has every column the query names;
\* it rejects the query otherwise and the call throws
QueryRuns(columns, tableColumns) == columns \subseteq tableColumns

\* minute of the day of the trigger: cron expression "5 17 * * *", UTC
SummaryCronMinute == CUTOFF_HOUR_UTC * MinutesPerHour + 5

\* the instants the clock visits in the trigger's runs
DailyMarks == {SummaryCronMinute}

\* time passes in the trigger's runs
DailyClock == AdvanceClock(DailyMarks)

\* startOfToday() in a process running in UTC
StartOfToday == (now \div Day) * Day

\* SELECT DISTINCT w.slack_team_id FROM schedules s JOIN workspaces w
\* ON w.id = s.workspace_id WHERE s.is_active = TRUE
ActiveWorkspaces ==
  {schedules[s].workspace_id : s \in {x \in DOMAIN schedules :
       /\ schedules[x].is_active
       /\ schedules[x].workspace_id \in DOMAIN workspaces}}

\* The trigger fires at 17:05 UTC and calls maybePostSummary for today and
\* a workspace with an active entry.  A trigger that fires again at the
\* same instant stands for the trigger of a later day: it is let evaluate
\* the same day once more, which the program never does.
DailySummaryCron ==
  /\ now % Day = SummaryCronMinute
  /\ \E w \in ActiveWorkspaces : EvalCall(1, w, StartOfToday)
  /\ UNCHANGED ops

\* step 1 of maybePostSummary on this store
DailyConfig(i) ==
  /\ ev[i].pc = "config"
  /\ IF QueryRuns(ConfigQueryColumns, WorkspacesColumns)
     THEN EvalConfig(i)
     ELSE EvalError(i)

DailyNext ==
  \/ DailyClock
  \/ \E u \in SlackUsers, w \in Workspaces, lt \in LocalTimes, c \in Channels :
        Setup(u, w, ZoneOf(u), lt, c)
  \/ \E u \in SlackUsers, x \in AnswerTexts : SubmitStandup(u, x)
  \/ DailySummaryCron
  \/ DailyConfig(1)

\* time passes, the trigger fires when its minute has come, and a query
\* the function awaits returns or throws
DailySpec ==
  /\ SchedInit
  /\ [][DailyNext]_vars
  /\ WF_vars(DailyClock)
  /\ WF_vars(DailySummaryCron)
  /\ WF_vars(DailyConfig(1))

\* the days of the clock
Days == {d * Day : d \in 0..MaxDay}

\* workspace w has a summary channel, and for day d all its active
\* participants have answered or the cutoff has passed with an answer
Publishable(w, d) ==
  /\ w \in DOMAIN workspaces
  /\ workspaces[w].summary_channel # ""
  /\ \/ AllAnswered(ParticipantUserIds(w), AnsweredIn(w, d))
     \/ PastCutoff(d, now) /\ AnsweredIn(w, d) # {}

\* C27: once all active participants of a workspace that Setup configured
\* with a summary channel have answered for a day, or the day's cutoff has
\* passed with at least one answer, the publisher is eventually called for
\* that workspace and day, given that the daily trigger keeps running.
C27_EventuallyPublished ==
  \A w \in Workspaces, d \in Days :
     Publishable(w, d) ~>
        \E p \in DOMAIN posts :
           posts[p].workspaceId = w /\ posts[p].date = d

\* --------------------------------------------------------- processSendDmJob
\* the answers of chat.postMessage to the worker: result.ok, a result that
\* is not ok, or a thrown error
SlackResponses == {"ok", "notOk", "throws"}

\* a processor that logs the failure and returns
JobOutcomeSwallowed(response) == "completed"

\* how the processor ends: it returns when result.ok, it throws otherwise
\* (its own Error for a result that is not ok, the caught error rethrown),
\* and the queue marks the job completed or failed accordingly
JobOutcome(response) == IF response = "ok" THEN "completed" ELSE "failed"

\* the queue without one copy of the job the worker has taken
RemoveJob(q, job) ==
  IF q[job] > 1
  THEN [q EXCEPT ![job] = q[job] - 1]
  ELSE [j \in DOMAIN q \ {job} |-> q[j]]

\* The worker takes a job of the send_dm queue and runs processSendDmJob:
\* one call of chat.postMessage with the job's userId as channel.  The call
\* is recorded with its answer and with the way the processor ended.
ProcessSendDmJob(job, response) ==
  /\ job \in DOMAIN queue
  /\ ops < MaxOps
  /\ ops' = ops + 1
  /\ queue' = RemoveJob(queue, job)
  /\ posts' = Append(posts, [channel |-> job.userId, job |-> job,
                             response |-> response,
                             ok |-> response = "ok",
                             outcome |-> JobOutcome(response)])
  /\ UNCHANGED <<now, storeVars, tick, lastFailure, ev>>

\* one scheduler process, whose ticks follow one another, and the worker
WorkerTicks == {"t1"}

\* the worker's runs start at instant 0 on a store that has seen its first
\* setup
WorkerInit ==
  /\ EvalInit
  /\ users # <<>>

WorkerNext ==
  \/ AdvanceClock(SchedMarks)
  \/ \E t \in WorkerTicks :
        \/ TickBegin(t)
        \/ TickNoRows(t)
        \/ TickEnqueue(t)
        \/ TickUpdate(t)
        \/ TickCommit(t)
        \/ TickRollback(t)
  \/ \E job \in DOMAIN queue, r \in SlackResponses : ProcessSendDmJob(job, r)

WorkerSpec == WorkerInit /\ [][WorkerNext]_vars

\* C28: notifier failure is observable.  When the Slack call of a job
\* throws or returns not ok, processSendDmJob ends in failure and the queue
\* records the job as failed; it ends in success, and the job is recorded
\* completed, only when the reminder was sent.
C28_FailureObservable ==
  \A p \in DOMAIN posts :
     /\ posts[p].response \in {"notOk", "throws"} => posts[p].outcome = "failed"
     /\ posts[p].outcome = "completed" => posts[p].response = "ok"

\* one job ended in failure after a Slack call that was not ok and another
\* was completed after its reminder was sent
C28_Witness ==
  \E p, q \in DOMAIN posts :
     /\ posts[p].response = "notOk" /\ posts[p].outcome = "failed"
     /\ posts[q].response = "ok" /\ posts[q].outcome = "completed"

\* C29: idempotent reminder send.  Duplicate jobs for the same user and
\* the same occurrence have the effect of one: the user receives at most
\* one reminder per occurrence.
C29_OneReminderPerOccurrence ==
  \A p, q \in DOMAIN posts :
     (/\ posts[p].ok /\ posts[q].ok
      /\ posts[p].job.userId = posts[q].job.userId
      /\ posts[p].job.occurrence = posts[q].job.occurrence) => p = q

\* ------------------------------------------------------ /standup command
\* the paths on which the web server's receiver takes Slack requests
ReceiverEndpoints == {"/slack/events"}

\* the paths a slash command is posted to: the receiver's, and the mock
\* events endpoint the end-to-end test posts to
CommandEndpoints == ReceiverEndpoints \cup {"/api/mock/slack/events"}

\* the texts of the /standup command
CommandTexts == {"setup", "test-enqueue"}

\* A /standup slash command is posted to a path of the web server.  On a
\* path of the receiver (the request being signed) the handler acks and
\* then opens the setup modal for the text "setup" and sends the usage
\* hint for any other text; a path without a route is answered 404.  The
\* handler has no queue to add to.
SlashCommand(endpoint, text) ==
  LET routed == endpoint \in ReceiverEndpoints
  IN  /\ ops < MaxOps
      /\ ops' = ops + 1
      /\ posts' = Append(posts,
            [endpoint |-> endpoint, text |-> text,
             status |-> IF routed THEN 200 ELSE 404,
             call |-> IF ~routed THEN "none"
                      ELSE IF text = "setup" THEN "views.open"
                      ELSE "chat.postEphemeral"])
      /\ UNCHANGED <<now, storeVars, schedVars, ev>>

CommandNext ==
  \E e \in CommandEndpoints, x \in CommandTexts : SlashCommand(e, x)

CommandSpec == SchedInit /\ [][CommandNext]_vars

\* C30: starting from an empty send_dm queue, a /standup slash command
\* with the text 'test-enqueue' posted to the mock events endpoint is
\* answered with 200 and adds exactly one job to the send_dm queue.
C30_TestEnqueueAddsOneJob ==
  [][(/\ queue = <<>>
      /\ Len(posts') = Len(posts) + 1
      /\ posts'[Len(posts')].endpoint = "/api/mock/slack/events"
      /\ posts'[Len(posts')].text = "test-enqueue")
     => (/\ posts'[Len(posts')].status = 200
         /\ \E job \in DOMAIN queue' :
               DOMAIN queue' = {job} /\ queue'[job] = 1)]_vars

\* ---------------------------------------------------------------- C31
\* C31: row claiming is exclusive.  At every moment no schedule entry is
\* held by two tick transactions, and a tick that starts while another one
\* holds due rows does not wait: every row it holds was free when it began.
C31_ExclusiveClaim ==
  \A t \in Ticks : \A u \in Ticks \ {t} :
     DOMAIN tick[t].rows \cap DOMAIN tick[u].rows = {}

\* two ticks are in flight at once, and a row held by the first was due
\* when the second ran its SELECT: the second skipped it
C31_Witness ==
  \E t \in Ticks : \E u \in Ticks \ {t} :
     /\ tick[t].pc # "idle"
     /\ tick[u].pc # "idle"
     /\ \E s \in DOMAIN tick[t].rows :
          /\ tick[t].rows[s].next_run_at <= tick[u].at
          /\ tick[t].at <= tick[u].at
          /\ s \notin DOMAIN tick[u].rows

\* ---------------------------------------------------------------- C32
\* C32: anchor-and-advance.  A tick that commits sets the next_run_at of
\* every entry it fired to the entry's previous next_run_at plus one day of
\* 24 hours, whatever the time of the tick; and on its way it added, for
\* each fired entry, one job carrying the entry's user_id: each add puts one
\* copy of one job into the queue, for an entry the tick has not handled
\* yet, and at the commit every claimed entry has been handled.
C32_AnchorAndAdvance ==
  [][\A t \in Ticks :
       /\ (tick[t].pc = "commit" /\ tick'[t].pc = "idle"
             /\ schedules' # schedules)
           => /\ DOMAIN tick[t].writes = DOMAIN tick[t].rows
              /\ \A s \in DOMAIN tick[t].rows :
                   schedules'[s].next_run_at
                     = schedules[s].next_run_at + Day
       /\ (tick[t].pc = "enqueue" /\ tick'[t].pc = "update")
           => LET s == tick'[t].cur
                  added == {j \in DOMAIN queue' :
                              \/ j \notin DOMAIN queue
                              \/ queue'[j] # queue[j]}
              IN  /\ s \in DOMAIN tick[t].rows \ DOMAIN tick[t].writes
                  /\ DOMAIN queue \subseteq DOMAIN queue'
                  /\ Cardinality(added) <= 1
                  /\ \E j \in DOMAIN queue' :
                       /\ j.userId = schedules[s].user_id
                       /\ j.sid = s
                       /\ \/ j \in added /\ j \notin DOMAIN queue
                                           /\ queue'[j] = 1
                          \/ j \in added /\ j \in DOMAIN queue
                                           /\ queue'[j] = queue[j] + 1
                          \/ j \notin added /\ queue[j] = MaxCopies]_vars

\* a tick that ran later than the entry was due has committed: the entry
\* stands one day after the occurrence of its job, which is before the time
\* of the tick plus one day
C32_Witness ==
  /\ \A t \in Ticks : tick[t].pc = "idle"
  /\ lastFailure.at = "none"
  /\ \E j \in DOMAIN queue :
       /\ j.sid \in DOMAIN schedules
       /\ j.occurrence < now
       /\ j.userId = schedules[j.sid].user_id
       /\ schedules[j.sid].next_run_at = j.occurrence + Day
       /\ queue[j] = 1

\* ---------------------------------------------------------------- C33
\* C33: in the next-run computation, a candidate at today's date in the
\* zone that is not strictly after now is moved to the next calendar day of
\* the zone before the conversion to UTC, and a candidate strictly after
\* now stays today; in both cases the instant returned shows, in the zone,
\* that calendar day at the requested hour and minute, also when the
\* zone's offset changes between today and tomorrow.
C33_KeepsLocalTime ==
  \A s \in DOMAIN schedules :
     LET tz == schedules[s].timezone
         wanted == schedules[s].local_time.h * MinutesPerHour
                     + schedules[s].local_time.m
         nowInTargetTz == toZonedTime(now, tz)
         today == (nowInTargetTz \div Day) * Day + wanted
         shown == toZonedTime(schedules[s].next_run_at, tz)
     IN  IF today > nowInTargetTz THEN shown = today
         ELSE shown = today + Day

\* ------------------------------------------------- window specification
\* Answers arrive and the evaluator runs while the clock passes the start
\* and the cutoff of each day: submissions happen exactly at a day's start,
\* which is the end of the day before.
WindowMarks == {0, CUTOFF_HOUR_UTC * MinutesPerHour}

WindowNext ==
  \/ AdvanceClock(WindowMarks)
  \/ \E u \in SlackUsers, x \in AnswerTexts : SubmitStandup(u, x)
  \/ \E w \in Workspaces, d \in SummaryDates : EvalStart(1, w, d)
  \/ EvalConfig(1)
  \/ EvalParticipants(1)
  \/ EvalAnswers(1)
  \/ \E ok \in BOOLEAN : EvalPost(1, ok)

WindowSpec == RenderInit /\ [][WindowNext]_vars

\* the day an instant belongs to, as the instant of its start
DayOf(t) == (t \div Day) * Day

\* C34: the answer window of a day is half-open.  When the evaluator reads
\* the answers of a day, the users it finds answered are those of the
\* workspace's answers submitted on that calendar day: an answer submitted
\* exactly at the day's start is among them, one submitted exactly one day
\* later is not, and so each answer is read for exactly one day.
C34_HalfOpenWindow ==
  [][\A i \in Evals :
       (ev[i].pc = "answers" /\ ev'[i].pc # "answers")
       => ev'[i].answered =
            {answers[k].user_id :
               k \in {x \in DOMAIN answers :
                        /\ answers[x].workspace_id = ev[i].workspaceId
                        /\ DayOf(answers[x].submitted_at) = ev[i].date}}]_vars

\* the summary of day 0 was published when an answer of exactly the start
\* of day 0 and one of exactly its end were stored, with the one line of
\* the first
C34_Witness ==
  \E p \in DOMAIN posts :
     /\ posts[p].date = 0
     /\ Len(posts[p].lines) = 1
     /\ \E k \in 1..posts[p].stored : answers[k].submitted_at = 0
     /\ \E k \in 1..posts[p].stored : answers[k].submitted_at = Day

\* ------------------------------------------- setup transaction, step by step
\* a stand-up time that parse("HH:mm") cannot read
MalformedTimes == {[h |-> 25, m |-> 0]}

Malformed(standupTime) ==
  standupTime.h \notin 0..23 \/ standupTime.m \notin 0..59

\* the three tables after a transaction that kept what its statements had
\* written when it failed
AfterRollbackKeepsWrites(before, inTx) == inTx

\* the three tables after ROLLBACK: as they were at BEGIN
AfterRollback(before, inTx) == before

\* The view-submission handler of the setup modal, whole.  missing names the
\* fields without a selection: if there is one, the handler answers with
\* the errors and returns before it takes a connection.  Otherwise it runs
\* BEGIN, the workspace upsert, the user upsert, the next-run computation
\* and the schedule upsert, and COMMIT.  failAt is the statement that
\* throws ("none": no statement does); the next-run step throws for a time
\* that cannot be read.  A throw reaches the catch block, which runs
\* ROLLBACK.  lastFailure records the step that failed and the tables the
\* transaction had written by then.
SetupSubmission(slackUserId, slackTeamId, tz, standupTime, summaryChan, missing, failAt) ==
  LET before == [workspaces |-> workspaces, users |-> users,
                 schedules |-> schedules]
      workspaces1 == [w \in DOMAIN workspaces \cup {slackTeamId} |->
                        IF w = slackTeamId
                        THEN [summary_channel |-> summaryChan]
                        ELSE workspaces[w]]
      users1 == UpsertUser(users, slackUserId, slackTeamId, tz)
      userId == UserRow(users1, slackUserId)
      old == ScheduleRow(schedules, userId, slackTeamId)
      failed == IF failAt # "none" /\ (failAt # "schedule"
                                         \/ ~Malformed(standupTime))
                THEN failAt
                ELSE IF Malformed(standupTime) THEN "nextRun" ELSE "none"
      afterWorkspace == [before EXCEPT !.workspaces = workspaces1]
      afterUser == [afterWorkspace EXCEPT !.users = users1]
      inTx == IF failed = "workspace" THEN before
              ELSE IF failed = "user" THEN afterWorkspace
              ELSE afterUser
      final == IF failed = "none"
               THEN [afterUser EXCEPT !.schedules =
                       UpsertSchedule(schedules, userId, slackTeamId,
                         calculateNextRunAtUTC(standupTime, tz, now),
                         standupTime, tz)]
               ELSE AfterRollback(before, inTx)
  IN  /\ ops < MaxOps
      /\ ops' = ops + 1
      /\ IF missing # {}
         THEN /\ lastFailure' = [at |-> "missing", written |-> {}]
              /\ UNCHANGED <<workspaces, users, schedules>>
         ELSE /\ old \notin LockedRows
              /\ lastFailure' =
                   [at |-> failed,
                    written |-> IF failed = "workspace" THEN {}
                                ELSE IF failed = "user" THEN {"workspaces"}
                                ELSE IF failed = "none"
                                     THEN {"workspaces", "users", "schedules"}
                                     ELSE {"workspaces", "users"}]
              /\ workspaces' = final.workspaces
              /\ users' = final.users
              /\ schedules' = final.schedules
      /\ UNCHANGED <<now, answers, summaries_posted, tick, queue, evalVars>>

\* the fields of the setup modal
SetupFields == {"timezone", "time", "channel"}

SetupTxNext ==
  \/ AdvanceClock(SchedMarks)
  \/ \E u \in SlackUsers, w \in Workspaces, c \in Channels,
        lt \in LocalTimes \cup MalformedTimes,
        missing \in SUBSET SetupFields,
        failAt \in {"none", "workspace", "user", "schedule"} :
        SetupSubmission(u, w, ZoneOf(u), lt, c, missing, failAt)

SetupTxSpec == SchedInit /\ [][SetupTxNext]_vars

\* C35: Setup is all-or-nothing.  A submission that fails at a step after
\* BEGIN (workspace upsert, user upsert, next-run computation, schedule
\* upsert) leaves the workspaces, users and schedules tables as they were
\* before it, and so does a submission that lacks the timezone, the time
\* or the channel.
C35_SetupAllOrNothing ==
  [][(ops' = ops + 1
        /\ lastFailure'.at \in {"missing", "workspace", "user", "nextRun",
                                 "schedule"})
     => /\ workspaces' = workspaces
        /\ users' = users
        /\ schedules' = schedules]_vars

\* a submission whose schedule upsert threw, after its transaction had
\* upserted the workspace and the user, came in on tables holding the
\* setup of another user only: the workspace and the one user are there,
\* the second user is not
C35_Witness ==
  /\ lastFailure.at = "schedule"
  /\ lastFailure.written = {"workspaces", "users"}
  /\ Len(users) = 1
  /\ Len(schedules) = 1

\* ------------------------------------------ daily run specification
\* One scheduler process with its daily trigger, on tables two Setup
\* submissions have filled: each user is set up in one of two workspaces.
\* The evaluator reads the tables by the key the setup wrote.

\* the tables at instant 0 after the setup of each user in workspace home[u]
StoreAfterSetups(home) ==
  LET users1 == UpsertUser(<<>>, "UA", home["UA"], ZoneOf("UA"))
      users2 == UpsertUser(users1, "UB", home["UB"], ZoneOf("UB"))
      lt == CHOOSE t \in LocalTimes : TRUE
      schedules1 == UpsertSchedule(<<>>, UserRow(users2, "UA"), home["UA"],
                      calculateNextRunAtUTC(lt, ZoneOf("UA"), 0),
                      lt, ZoneOf("UA"))
      schedules2 == UpsertSchedule(schedules1, UserRow(users2, "UB"),
                      home["UB"],
                      calculateNextRunAtUTC(lt, ZoneOf("UB"), 0),
                      lt, ZoneOf("UB"))
  IN  [workspaces |-> [w \in {home[u] : u \in SlackUsers} |->
                         [summary_channel |-> CHOOSE c \in Channels : TRUE]],
       users |-> users2,
       schedules |-> schedules2]

RunInit ==
  /\ now = 0
  /\ \E home \in [SlackUsers -> SetupWorkspaces] :
        /\ workspaces = StoreAfterSetups(home).workspaces
        /\ users = StoreAfterSetups(home).users
        /\ schedules = StoreAfterSetups(home).schedules
  /\ answers = <<>>
  /\ summaries_posted = {}
  /\ tick = [t \in Ticks |-> IdleTick]
  /\ queue = <<>>
  /\ ops = 0
  /\ lastFailure = [at |-> "none", written |-> {}]
  /\ ev = [i \in Evals |-> IdleEval]
  /\ posts = <<>>

\* the next instant at which the trigger fires, or now when the clock has
\* visited the last one
NextTrigger ==
  LET later == {t \in Instants(DailyMarks) : t > now}
  IN  IF later = {} THEN now
      ELSE CHOOSE t \in later : \A u \in later : t <= u

\* the rows of the trigger's query were it without DISTINCT: the
\* workspace of every active entry, in table order
SummaryTargetsPerEntry ==
  LET act == SelectSeq([s \in DOMAIN schedules |-> s],
                       LAMBDA s : /\ schedules[s].is_active
                                  /\ schedules[s].workspace_id
                                       \in DOMAIN workspaces)
  IN  {[k \in DOMAIN act |-> schedules[act[k]].workspace_id]}

\* slackTeamIds: the rows of SELECT DISTINCT w.slack_team_id ... WHERE
\* s.is_active = TRUE, in any order
SummaryTargets ==
  {q \in [1..Cardinality(ActiveWorkspaces) -> ActiveWorkspaces] :
     \A w \in ActiveWorkspaces : \E k \in DOMAIN q : q[k] = w}

\* The clock reaches 17:05 UTC and the trigger's callback runs: it reads
\* the workspaces with an active entry and calls maybePostSummary(id,
\* todayUTC) for each of them, all calls running side by side
\* (Promise.allSettled).  Without such a workspace it returns.  The calls
\* of the day before have returned by then.
DailySummaryRun ==
  /\ NextTrigger > now
  /\ \A i \in Evals : ev[i].pc = "idle"
  /\ now' = NextTrigger
  /\ \E slackTeamIds \in SummaryTargets :
       ev' = [i \in Evals |->
                IF i <= Len(slackTeamIds)
                THEN [IdleEval EXCEPT
                        !.pc = "config",
                        !.workspaceId = slackTeamIds[i],
                        !.date = (NextTrigger \div Day) * Day]
                ELSE IdleEval]
  /\ UNCHANGED <<storeVars, ops, schedVars, posts>>

\* a step of call i of maybePostSummary: an awaited query or publisher
\* call returns or throws
RunEval(i) ==
  \/ EvalConfig(i)
  \/ EvalParticipants(i)
  \/ EvalAnswers(i)
  \/ \E ok \in BOOLEAN : EvalPost(i, ok)
  \/ EvalError(i)

\* the number of submissions and updates the daily runs are followed with
RunOps == MaxOps - 3

RunNext ==
  \/ DailySummaryRun
  \/ \E u \in SlackUsers, x \in AnswerTexts :
        ops < RunOps /\ SubmitStandup(u, x)
  \/ \E s \in DOMAIN schedules :
        ops < RunOps /\ ops' = ops + 1 /\ DisableEntry(s)
  \/ \E i \in Evals : RunEval(i)

\* every awaited call of a running maybePostSummary ends
RunSpec ==
  /\ RunInit
  /\ [][RunNext]_vars
  /\ \A i \in Evals : WF_vars(RunEval(i))

\* C36: evaluation errors are scoped to one workspace.  In a daily run,
\* the step in which the call for one workspace fails (a query throws, or
\* the publisher call fails) leaves the calls for the other workspaces as
\* they are, and every call that is running beside a failed one goes on to
\* return by one of its own return paths.
C36_ErrorsScoped ==
  /\ [][\A i \in Evals :
          (ev[i].pc # "idle" /\ ev'[i].pc = "idle"
             /\ ev'[i].outcome \in {"error", "postFailed"})
          => \A j \in Evals \ {i} : ev'[j] = ev[j]]_vars
  /\ \A i \in Evals : \A j \in Evals \ {i} :
        (ev[i].outcome \in {"error", "postFailed"} /\ ev[j].pc # "idle")
          ~> (ev[j].pc = "idle" /\ ev[j].outcome # "none")

\* in one run the call for one workspace failed and the call for another
\* published its summary
C36_Witness ==
  \E i \in Evals : \E j \in Evals \ {i} :
     /\ ev[i].outcome \in {"error", "postFailed"}
     /\ ev[j].outcome = "posted"
     /\ \E p \in DOMAIN posts : posts[p].by = j /\ posts[p].ok

\* ---------------------------------------------------------------- C40
\* C40: the scheduler process calls the evaluator at most once for a
\* workspace and a day, at or after the day's cutoff, once for each
\* workspace that has an active entry.  Every step that starts calls of
\* maybePostSummary starts them for today, takes the clock from before
\* today's trigger minute to it (the clock never goes back, so no other
\* step starts calls for that day), is past today's cutoff, and starts
\* one call for each workspace with an active entry and no two calls for
\* the same workspace.
C40_OncePerWorkspaceDay ==
  [][/\ now' >= now
     /\ LET called == {i \in Evals : ev[i].pc = "idle" /\ ev'[i].pc = "config"}
            today == DayOf(now')
        IN  called # {}
            => /\ now < today + SummaryCronMinute
               /\ now' = today + SummaryCronMinute
               /\ \A i \in called :
                    /\ ev'[i].date = today
                    /\ now' >= ev'[i].date + CUTOFF_HOUR_UTC * MinutesPerHour
               /\ \A i \in called : \A j \in called \ {i} :
                    ev'[i].workspaceId # ev'[j].workspaceId
               /\ {ev'[i].workspaceId : i \in called}
                    = {w \in DOMAIN workspaces :
                         \E s \in DOMAIN schedules :
                            /\ schedules[s].is_active
                            /\ schedules[s].workspace_id = w}]_vars

\* the trigger of a day has fired on a workspace with two active entries:
\* one call is running for it, and no second one
C40_Witness ==
  /\ now % Day = SummaryCronMinute
  /\ ev[1].pc = "config"
  /\ ev[2].pc = "idle"
  /\ Cardinality({s \in DOMAIN schedules :
                    /\ schedules[s].is_active
                    /\ schedules[s].workspace_id = ev[1].workspaceId}) = 2

\* ------------------------------------------------ reminder specification
\* One entry that Setup configured once and never again, the ticks of the
\* scheduler and the participant's answers, by the button of the reminder
\* and by the stand-up modal.
ReminderNext ==
  \/ AdvanceClock(SchedMarks)
  \/ \E t \in WorkerTicks :
        \/ TickBegin(t)
        \/ TickNoRows(t)
        \/ TickEnqueue(t)
        \/ TickUpdate(t)
        \/ TickCommit(t)
        \/ TickRollback(t)
  \/ \E u \in SlackUsers, x \in AnswerTexts : SubmitStandup(u, x)
  \/ \E u \in SlackUsers, x \in AnswerTexts : SubmitStandupModal(u, x)

ReminderSpec == WorkerInit /\ [][ReminderNext]_vars

\* the occurrences entry s has been dispatched for
DispatchedOccurrences(s) ==
  {j.occurrence : j \in {x \in DOMAIN queue : x.sid = s}}

\* C37: one reminder per day.  For an active entry that Setup does not
\* configure again, the occurrences of its dispatches follow each other at
\* one day's distance, and the occurrence it waits for is never more than
\* one day after the latest one dispatched: no answer submission makes the
\* entry skip a daily occurrence.
C37_NoSkippedOccurrence ==
  \A s \in DOMAIN schedules :
     LET occ == DispatchedOccurrences(s)
     IN  (schedules[s].is_active /\ occ # {})
         => /\ \A a \in occ : (a - Day \in occ) \/ (\A b \in occ : a <= b)
            /\ \A a \in occ :
                 (\A b \in occ : b <= a)
                 => schedules[s].next_run_at <= a + Day

\* ---------------------------------------------------------------- C38
\* the channel argument of chat.postMessage as Slack reads it: the text of
\* the value the job carries, a users.id (bigint) in decimal digits
ChannelText(userId) == ToString(userId)

\* C38: the reminder for a due entry reaches the participant who
\* configured it.  In every call of chat.postMessage by the worker the
\* channel is the Slack user id that Setup registered for the user of the
\* entry the job was enqueued for.
C38_ReminderReachesParticipant ==
  \A p \in DOMAIN posts :
     LET job == posts[p].job
     IN  ChannelText(posts[p].channel)
           = users[schedules[job.sid].user_id].slack_user_id

\* ---------------------------------------------------------------- C39
\* C39: in every summary handed to the publisher the responded count is at
\* most the participant count, and every line is the answer of a
\* participant who is active when the summary is built: answers of users
\* who are not active participants of the workspace are neither counted
\* nor listed.  (Stated for the runs during which the set of active
\* participants stays as the run read it.)
C39_OnlyParticipantsListed ==
  [][\A i \in Evals :
       LET active == {schedules[s].user_id :
                        s \in {x \in DOMAIN schedules :
                                 /\ schedules[x].is_active
                                 /\ schedules[x].workspace_id
                                      = ev[i].workspaceId}}
       IN  (ev[i].pc = "answers" /\ ev'[i].pc = "post"
              /\ ev[i].participants = active)
           => LET summary == ev'[i].payload[1]
              IN  /\ summary.responded <= summary.total
                  /\ \A k \in DOMAIN summary.lines :
                       summary.lines[k].user_id \in active]_vars
====
